---- MODULE Spec2Model ----
(***************************************************************************)
(* A model of src/plugin/index.js (DashboardPlugin).                       *)
(*                                                                         *)
(* Two plugin instances are registered, in this order, on every compiler:  *)
(*   "hp"  new DashboardPlugin(fn)   caller-supplied handler mode          *)
(*   "sp"  new DashboardPlugin()     socket mode                           *)
(* so that every lifecycle signal of a compiler reaches the hooks of both. *)
(* The same two instances are shared by all compilers.                     *)
(***************************************************************************)
EXTENDS Integers, Sequences, FiniteSets, TLC

\* ---------------------------------------------------------------- bounds
MaxSteps == 6         \* operations performed in one behaviour
MaxNow == 1200        \* the clock stops advancing here
MaxCalls == 4         \* lifecycle batches delivered in one behaviour
MaxConnects == 2      \* connect signals per transport
MaxCloses == 2        \* close() calls per transport
MaxElapsed == 3500    \* longest elapsed time of SpecTime, in milliseconds

\* ------------------------------------------------------------- constants
ONE_SECOND == 1000

Plugins == {"hp", "sp"}
PluginOrder == <<"hp", "sp">>      \* order of compiler.options.plugins
Compilers == {1, 2}
Deltas == {600}                    \* clock increments
Percents == {50}                   \* progress percent, in hundredths
Msgs == {"building"}               \* ProgressPlugin phase messages
Undefined == -1                    \* `let timer;` / a field never assigned

\* compiler.options.plugins, as far as the NODE_ENV lookup can see it:
\* no DefinePlugin, one without process.env.NODE_ENV, one whose constant is
\* the JSON text "production", one whose constant is the bare word production
Defines == {"absent", "noNodeEnv", "quotedProduction", "bareProduction"}

VARIABLES
  handler,      \* this.handler                  per plugin: "fn" | "null"
  watching,     \* this.watching                 per plugin
  minimal,      \* this.minimal                  per plugin: "undefined" | "true" | "false"
  socket,       \* this.socket                   per plugin: 0 (undefined) or the compiler whose apply() made it
  cl,           \* closure of apply(compiler)    per plugin, compiler: local handler, timer, nodeEnv
  socks,        \* the SocketIOClient objects    per plugin, compiler
  fnCalls,      \* calls received by the caller-supplied function, in order
  now,          \* Date.now()
  compiler,     \* the compilers: options, result of setup, build in flight
  started,      \* the last of the signals watch-run and run the bundler raised: "none" before both
  thrown,       \* the exception the last operation raised, "none" when it returned
  root,         \* this.root                    per plugin: "undefined", "" or a path
  args,         \* the arguments of the last operation
  returned,     \* what the last operation returned and the manifests it required
  sig,          \* the operation that produced the current state
  steps         \* the number of operations performed so far

vars == <<handler, watching, minimal, socket, cl, socks, fnCalls, now, compiler, started, thrown, root, args, returned, sig, steps>>

\* ---------------------------------------------------------------- helpers
Sig(name, p, c) == [name |-> name, p |-> p, c |-> c]

\* one more operation, recorded in sig
Step(name, p, c) ==
  /\ steps < MaxSteps
  /\ steps' = steps + 1
  /\ sig' = Sig(name, p, c)

\* faulty variant: the comparison with one second is strict
getTimeMessage_mut(timer, t) ==
  IF timer = Undefined
    THEN [nan |-> TRUE, n |-> 0, unit |-> "ms"]
    ELSE LET time == t - timer IN
         IF time > ONE_SECOND
           THEN [nan |-> FALSE, n |-> (2 * time + ONE_SECOND) \div (2 * ONE_SECOND), unit |-> "s"]
           ELSE [nan |-> FALSE, n |-> time, unit |-> "ms"]

\* lines 21-33.  t is the value Date.now() returns inside the function.
\* Date.now() - undefined is NaN, NaN >= 1000 is false, NaN + "ms" is "NaNms".
getTimeMessage(timer, t) ==
  IF timer = Undefined
    THEN [nan |-> TRUE, n |-> 0, unit |-> "ms"]
    ELSE LET time == t - timer IN
         IF time >= ONE_SECOND
           THEN [nan |-> FALSE, n |-> (2 * time + ONE_SECOND) \div (2 * ONE_SECOND), unit |-> "s"]
           ELSE [nan |-> FALSE, n |-> time, unit |-> "ms"]

\* lines 67-70: _.getOr("\"development\"")(path)(definePlugin), the JSON text
getOrNodeEnv(def) ==
  CASE def = "absent" -> [quoted |-> TRUE, text |-> "development"]
    [] def = "noNodeEnv" -> [quoted |-> TRUE, text |-> "development"]
    [] def = "quotedProduction" -> [quoted |-> TRUE, text |-> "production"]
    [] def = "bareProduction" -> [quoted |-> FALSE, text |-> "production"]

\* JSON.parse of that text: a string literal parses to its contents, a bare
\* word is a SyntaxError
JSONparse(json) ==
  IF json.quoted THEN [ok |-> TRUE, value |-> json.text]
                 ELSE [ok |-> FALSE, value |-> "SyntaxError"]

\* --------------------------------------------------------------- batches
\* line 79
nodeEnvBatch(env) == << [type |-> "nodeEnv", value |-> env] >>

\* lines 88-101
progressBatch(percent, msg, timer, t) ==
  << [type |-> "status", value |-> "Compiling"],
     [type |-> "progress", value |-> percent],
     [type |-> "operations", value |-> [text |-> msg, time |-> getTimeMessage(timer, t)]] >>

\* faulty variant: the compile hook also reports a progress entry
compileBatch_mut ==
  << [type |-> "status", value |-> "Compiling"],
     [type |-> "progress", value |-> 0] >>

\* lines 117-122
compileBatch == << [type |-> "status", value |-> "Compiling"] >>

\* faulty variant: the invalid hook appends an elapsed label, as the failed hook does
invalidBatch_mut ==
  << [type |-> "status", value |-> "Invalidated"],
     [type |-> "progress", value |-> 0],
     [type |-> "operations", value |-> [text |-> "idle", time |-> getTimeMessage(Undefined, 0)]],
     [type |-> "clear"] >>

\* lines 126-142
invalidBatch ==
  << [type |-> "status", value |-> "Invalidated"],
     [type |-> "progress", value |-> 0],
     [type |-> "operations", value |-> [text |-> "idle"]],
     [type |-> "clear"] >>

\* lines 146-155
failedBatch(timer, t) ==
  << [type |-> "status", value |-> "Failed"],
     [type |-> "operations", value |-> [text |-> "idle", time |-> getTimeMessage(timer, t)]] >>

\* faulty variant: the two predicates of the stats object are swapped
doneBatch_mut(stats, timer, t) ==
  << [type |-> "status", value |-> "Success"],
     [type |-> "progress", value |-> 0],
     [type |-> "operations", value |-> [text |-> "idle", time |-> getTimeMessage(timer, t)]],
     [type |-> "stats", value |-> [errors |-> stats.hasWarnings, warnings |-> stats.hasErrors, data |-> "toJson"]],
     [type |-> "log", value |-> "toString"] >>

\* lines 165-190; stats.toJson() and stats.toString(statsOptions) are opaque
doneBatch(stats, timer, t) ==
  << [type |-> "status", value |-> "Success"],
     [type |-> "progress", value |-> 0],
     [type |-> "operations", value |-> [text |-> "idle", time |-> getTimeMessage(timer, t)]],
     [type |-> "stats", value |-> [errors |-> stats.hasErrors, warnings |-> stats.hasWarnings, data |-> "toJson"]],
     [type |-> "log", value |-> "toString"] >>

\* ------------------------------------------------------------------ Init
\* lines 36-50.  "hp" is constructed with a function, "sp" with no options.
Constructed(p) == IF p = "hp" THEN "fn" ELSE "null"

\* the result of an operation that returns nothing
Void == [value |-> "undefined", required |-> << >>]

NoClosure == [handler |-> "unapplied", sock |-> 0, timer |-> Undefined, nodeEnv |-> "none"]
NoSocket == [status |-> "none", emitted |-> << >>, modeListener |-> FALSE, connects |-> 0, closes |-> 0]

InitPlugin(r) ==
  /\ handler = [p \in Plugins |-> Constructed(p)]
  /\ watching = [p \in Plugins |-> FALSE]
  /\ minimal = [p \in Plugins |-> "undefined"]
  /\ socket = [p \in Plugins |-> 0]
  /\ cl = [p \in Plugins |-> [c \in Compilers |-> NoClosure]]
  /\ socks = [p \in Plugins |-> [c \in Compilers |-> NoSocket]]
  /\ fnCalls = << >>
  /\ now = 0
  /\ \E d \in Defines : compiler = [c \in Compilers |-> [define |-> d, pathinfo |-> FALSE, setup |-> 0, threw |-> FALSE, building |-> FALSE]]
  /\ started = "none"
  /\ thrown = "none"
  /\ root = r
  /\ args = << >>
  /\ returned = Void
  /\ sig = Sig("new", "", 0)
  /\ steps = 0

\* new DashboardPlugin(fn) and new DashboardPlugin(): this.root is undefined
Init == InitPlugin([p \in Plugins |-> "undefined"])

\* ----------------------------------------------------------------- clock
Tick(d) ==
  /\ now + d <= MaxNow
  /\ now' = now + d
  /\ Step("tick", "", 0)
  /\ args' = <<d>>
  /\ UNCHANGED <<root, returned>>
  /\ thrown' = "none"
  /\ UNCHANGED <<handler, watching, minimal, socket, cl, socks, fnCalls, compiler, started>>

\* --------------------------------------------------------------- cleanup
\* faulty variant: the guard forgets the watching flag
cleanupGuard_mut(p) == socket[p] # 0

\* line 53
cleanupGuard(p) == ~watching[p] /\ socket[p] # 0

\* faulty variant: a teardown that toggles, reopening a transport it finds closed
cleanup_mut(p) ==
  /\ socket[p] # 0 => socks[p][socket[p]].closes < MaxCloses
  /\ IF cleanupGuard(p)
       THEN /\ handler' = [handler EXCEPT ![p] = "null"]
            /\ thrown' = "none"
            /\ socks' = [socks EXCEPT ![p][socket[p]].status =
                                        IF @ = "closed" THEN "connecting" ELSE "closed",
                                      ![p][socket[p]].closes = @ + 1]
       ELSE /\ thrown' = "none"
            /\ UNCHANGED <<handler, socks>>
  /\ Step("cleanup", p, 0)
  /\ args' = << >>
  /\ UNCHANGED <<root, returned>>
  /\ UNCHANGED <<watching, minimal, socket, cl, fnCalls, now, compiler, started>>

\* lines 52-57
cleanup(p) ==
  /\ socket[p] # 0 => socks[p][socket[p]].closes < MaxCloses
  /\ IF cleanupGuard(p)
       THEN /\ handler' = [handler EXCEPT ![p] = "null"]
            /\ IF socket[p] = 0
                 THEN \* undefined.close()
                      /\ thrown' = "TypeError"
                      /\ UNCHANGED socks
                 ELSE /\ thrown' = "none"
                      /\ socks' = [socks EXCEPT ![p][socket[p]].status = "closed",
                                                ![p][socket[p]].closes = @ + 1]
       ELSE /\ thrown' = "none"
            /\ UNCHANGED <<handler, socks>>
  /\ Step("cleanup", p, 0)
  /\ args' = << >>
  /\ UNCHANGED <<root, returned>>
  /\ UNCHANGED <<watching, minimal, socket, cl, fnCalls, now, compiler, started>>

\* ----------------------------------------------------------------- apply
\* faulty variant: apply() opens a transport whether or not a handler was supplied
NoHandler_mut(p) == TRUE

\* line 72: if (!handler), with handler = this.handler of line 60
NoHandler(p) == handler[p] = "null"

Position(p) == CHOOSE i \in 1..Len(PluginOrder) : PluginOrder[i] = p

\* lines 59-84 (the hooks registered in lines 86-191 are the actions below).
\* The compiler applies its plugins in order while it is being set up; an
\* exception thrown by apply() ends the setup.
apply(p, c) ==
  LET parsed == JSONparse(getOrNodeEnv(compiler[c].define)) IN
  /\ ~compiler[c].threw
  /\ compiler[c].setup = Position(p) - 1
  /\ Step("apply", p, c)
  /\ args' = << >>
  /\ UNCHANGED <<root, returned>>
  /\ IF ~parsed.ok
       THEN /\ compiler' = [compiler EXCEPT ![c].pathinfo = TRUE, ![c].threw = TRUE]
            /\ thrown' = parsed.value
            /\ UNCHANGED <<handler, watching, minimal, socket, cl, socks, fnCalls, now, started>>
       ELSE /\ compiler' = [compiler EXCEPT ![c].pathinfo = TRUE, ![c].setup = @ + 1]
            /\ thrown' = "none"
            /\ IF NoHandler(p)
                 THEN /\ cl' = [cl EXCEPT ![p][c] = [handler |-> "noop", sock |-> 0,
                                                     timer |-> Undefined, nodeEnv |-> parsed.value]]
                      /\ socket' = [socket EXCEPT ![p] = c]
                      /\ socks' = [socks EXCEPT ![p][c] =
                                     [status |-> "connecting", emitted |-> << >>,
                                      modeListener |-> TRUE, connects |-> 0, closes |-> 0]]
                 ELSE /\ cl' = [cl EXCEPT ![p][c] = [handler |-> "fn", sock |-> 0,
                                                     timer |-> Undefined, nodeEnv |-> parsed.value]]
                      /\ UNCHANGED <<socket, socks>>
            /\ UNCHANGED <<handler, watching, minimal, fnCalls, now, started>>

\* ------------------------------------------------------------- transport
\* lines 77-80: the "connect" listener of the transport made by apply(p, c).
\* this.socket is read when the listener runs.
\* faulty variant: a transport that reconnects after close()
connect_mut(p, c) ==
  /\ socks[p][c].connects < MaxConnects
  /\ cl' = [cl EXCEPT ![p][c].handler = "emit", ![p][c].sock = socket[p]]
  /\ socks' = [q \in Plugins |-> [s \in Compilers |->
       LET a == IF q = p /\ s = c
                  THEN [socks[q][s] EXCEPT !.status = "connected", !.connects = @ + 1]
                  ELSE socks[q][s]
       IN IF q = p /\ s = socket[p]
            THEN [a EXCEPT !.emitted = Append(@, nodeEnvBatch(cl[p][c].nodeEnv))]
            ELSE a]]
  /\ Step("connect", p, c)
  /\ args' = << >>
  /\ UNCHANGED <<root, returned>>
  /\ thrown' = "none"
  /\ UNCHANGED <<handler, watching, minimal, socket, fnCalls, now, compiler, started>>

connect(p, c) ==
  /\ socks[p][c].status \in {"connecting", "connected"}
  /\ socks[p][c].connects < MaxConnects
  /\ cl' = [cl EXCEPT ![p][c].handler = "emit", ![p][c].sock = socket[p]]
  /\ socks' = [q \in Plugins |-> [s \in Compilers |->
       LET a == IF q = p /\ s = c
                  THEN [socks[q][s] EXCEPT !.status = "connected", !.connects = @ + 1]
                  ELSE socks[q][s]
       IN IF q = p /\ s = socket[p]
            THEN [a EXCEPT !.emitted = Append(@, nodeEnvBatch(cl[p][c].nodeEnv))]
            ELSE a]]
  /\ Step("connect", p, c)
  /\ args' = << >>
  /\ UNCHANGED <<root, returned>>
  /\ thrown' = "none"
  /\ UNCHANGED <<handler, watching, minimal, socket, fnCalls, now, compiler, started>>

\* lines 81-83: the once("mode") listener
mode(p, c, m) ==
  /\ socks[p][c].status = "connected"
  /\ IF socks[p][c].modeListener
       THEN /\ minimal' = [minimal EXCEPT ![p] = m]
            /\ socks' = [socks EXCEPT ![p][c].modeListener = FALSE]
       ELSE UNCHANGED <<minimal, socks>>
  /\ Step("mode", p, c)
  /\ args' = <<m>>
  /\ UNCHANGED <<root, returned>>
  /\ thrown' = "none"
  /\ UNCHANGED <<handler, watching, socket, cl, fnCalls, now, compiler, started>>

\* ----------------------------------------------------- lifecycle signals
Ready(c) == compiler[c].setup = Len(PluginOrder)

\* handler(batch) in the closure of every plugin applied to compiler c, in
\* the order of registration; batch[p] is the batch built by p's hook.
\* "fn" is the caller-supplied function, "noop" is line 19, "emit" is
\* socket.emit.bind(socket, "message") of line 78.
FnCallsAfter(c, batch) ==
  LET ps == SelectSeq(PluginOrder, LAMBDA p : cl[p][c].handler = "fn")
  IN fnCalls \o [i \in 1..Len(ps) |-> [p |-> ps[i], c |-> c, batch |-> batch[ps[i]]]]

\* faulty variant: before connect the handler is socket.emit already, not the no-op
SocksAfter_mut(c, batch) ==
  [p \in Plugins |-> [s \in Compilers |->
     IF \/ cl[p][c].handler = "emit" /\ cl[p][c].sock = s
        \/ cl[p][c].handler = "noop" /\ s = c
       THEN [socks[p][s] EXCEPT !.emitted = Append(@, batch[p])]
       ELSE socks[p][s]]]

SocksAfter(c, batch) ==
  [p \in Plugins |-> [s \in Compilers |->
     IF cl[p][c].handler = "emit" /\ cl[p][c].sock = s
       THEN [socks[p][s] EXCEPT !.emitted = Append(@, batch[p])]
       ELSE socks[p][s]]]

Deliver(c, batch) ==
  /\ Len(fnCalls) < MaxCalls
  /\ fnCalls' = FnCallsAfter(c, batch)
  /\ socks' = SocksAfter(c, batch)

\* faulty variant: watch-run does not raise the flag
watchRun_mut(c) ==
  /\ Ready(c)
  /\ started' = "watch-run"
  /\ thrown' = "none"
  /\ Step("watch-run", "", c)
  /\ args' = << >>
  /\ UNCHANGED <<root, returned>>
  /\ UNCHANGED <<handler, watching, minimal, socket, cl, socks, fnCalls, now, compiler>>

\* lines 105-108
watchRun(c) ==
  /\ Ready(c)
  /\ watching' = [p \in Plugins |-> TRUE]
  /\ started' = "watch-run"
  /\ thrown' = "none"
  /\ Step("watch-run", "", c)
  /\ args' = << >>
  /\ UNCHANGED <<root, returned>>
  /\ UNCHANGED <<handler, minimal, socket, cl, socks, fnCalls, now, compiler>>

\* faulty variant: run restarts the timer as compile does
run_mut(c) ==
  /\ Ready(c)
  /\ watching' = [p \in Plugins |-> FALSE]
  /\ started' = "run"
  /\ cl' = [p \in Plugins |-> [cl[p] EXCEPT ![c].timer = now]]
  /\ thrown' = "none"
  /\ Step("run", "", c)
  /\ args' = << >>
  /\ UNCHANGED <<root, returned>>
  /\ UNCHANGED <<handler, minimal, socket, socks, fnCalls, now, compiler>>

\* lines 110-113
run(c) ==
  /\ Ready(c)
  /\ watching' = [p \in Plugins |-> FALSE]
  /\ started' = "run"
  /\ thrown' = "none"
  /\ Step("run", "", c)
  /\ args' = << >>
  /\ UNCHANGED <<root, returned>>
  /\ UNCHANGED <<handler, minimal, socket, cl, socks, fnCalls, now, compiler>>

\* lines 115-123
compile(c) ==
  /\ Ready(c)
  /\ cl' = [p \in Plugins |-> [cl[p] EXCEPT ![c].timer = now]]
  /\ Deliver(c, [p \in Plugins |-> compileBatch])
  /\ compiler' = [compiler EXCEPT ![c].building = TRUE]
  /\ Step("compile", "", c)
  /\ args' = << >>
  /\ UNCHANGED <<root, returned>>
  /\ thrown' = "none"
  /\ UNCHANGED <<handler, watching, minimal, socket, now, started>>

\* lines 86-103
progress(c, percent, msg) ==
  /\ Ready(c)
  /\ Deliver(c, [p \in Plugins |-> progressBatch(percent, msg, cl[p][c].timer, now)])
  /\ Step("progress", "", c)
  /\ args' = <<percent, msg>>
  /\ UNCHANGED <<root, returned>>
  /\ thrown' = "none"
  /\ UNCHANGED <<handler, watching, minimal, socket, cl, now, compiler, started>>

\* lines 125-143
invalid(c) ==
  /\ Ready(c)
  /\ Deliver(c, [p \in Plugins |-> invalidBatch])
  /\ Step("invalid", "", c)
  /\ args' = << >>
  /\ UNCHANGED <<root, returned>>
  /\ thrown' = "none"
  /\ UNCHANGED <<handler, watching, minimal, socket, cl, now, compiler, started>>

\* lines 145-156
failed(c) ==
  /\ Ready(c)
  /\ Deliver(c, [p \in Plugins |-> failedBatch(cl[p][c].timer, now)])
  /\ compiler' = [compiler EXCEPT ![c].building = FALSE]
  /\ Step("failed", "", c)
  /\ args' = << >>
  /\ UNCHANGED <<root, returned>>
  /\ thrown' = "none"
  /\ UNCHANGED <<handler, watching, minimal, socket, cl, now, started>>

\* lines 158-191
done(c, stats) ==
  /\ Ready(c)
  /\ Deliver(c, [p \in Plugins |-> doneBatch(stats, cl[p][c].timer, now)])
  /\ compiler' = [compiler EXCEPT ![c].building = FALSE]
  /\ Step("done", "", c)
  /\ args' = <<stats>>
  /\ UNCHANGED <<root, returned>>
  /\ thrown' = "none"
  /\ UNCHANGED <<handler, watching, minimal, socket, cl, now, started>>

Stats == [hasErrors : BOOLEAN, hasWarnings : BOOLEAN]

Next ==
  \/ \E d \in Deltas : Tick(d)
  \/ \E p \in Plugins : cleanup(p)
  \/ \E p \in Plugins, c \in Compilers : apply(p, c)
  \/ \E p \in Plugins, c \in Compilers : connect(p, c)
  \/ \E p \in Plugins, c \in Compilers, m \in {"true", "false"} : mode(p, c, m)
  \/ \E c \in Compilers : watchRun(c)
  \/ \E c \in Compilers : run(c)
  \/ \E c \in Compilers : compile(c)
  \/ \E c \in Compilers, percent \in Percents, msg \in Msgs : progress(c, percent, msg)
  \/ \E c \in Compilers : invalid(c)
  \/ \E c \in Compilers : failed(c)
  \/ \E c \in Compilers, stats \in Stats : done(c, stats)

Spec == Init /\ [][Next]_vars

\* ------------------------------------------------------------------------
\* getProjectRoot, for every root option, bundle and state of the two
\* manifests it may require.
\* ------------------------------------------------------------------------
Roots == {"undefined", "", "/a"}                  \* options.root
Contexts == {"undefined", "", "/b"}               \* bundle.context
Bundles == [defined : {TRUE}, context : Contexts] \cup {[defined |-> FALSE, context |-> "undefined"]}
Manifests == {"missing", "unparsable", "falsy", "object"}   \* a package.json: absent, not JSON, JSON null, JSON object
Files == [context : Manifests, cwd : Manifests]   \* the package.json under bundle.context and under the cwd
Cwd == "/cwd"                                     \* process.cwd()

\* a JavaScript string or undefined used as a condition
Truthy(x) == x \notin {"undefined", ""}

\* require(file): throws when the file is missing or is not JSON, else its value
Require(m) == [threw |-> m \in {"missing", "unparsable"}, truthy |-> m = "object"]

\* faulty variant: the working directory is tried before the bundle context
getProjectRootResult_mut(r, bundle, fs) ==
  IF Truthy(r)
    THEN [value |-> r, required |-> << >>]
    ELSE IF ~Require(fs.cwd).threw /\ Require(fs.cwd).truthy
      THEN [value |-> Cwd, required |-> <<Cwd>>]
      ELSE IF bundle.defined /\ Truthy(bundle.context) /\ ~Require(fs.context).threw /\ Require(fs.context).truthy
        THEN [value |-> bundle.context, required |-> <<Cwd, bundle.context>>]
        ELSE [value |-> "null", required |-> <<Cwd>>]

\* lines 214-238: the value returned and the directories whose package.json
\* was required.  Reading .context of an undefined bundle throws inside the
\* first try; both catch blocks pass through.
getProjectRootResult(r, bundle, fs) ==
  IF Truthy(r)
    THEN [value |-> r, required |-> << >>]
    ELSE LET probed == bundle.defined /\ Truthy(bundle.context)
             first == IF probed THEN <<bundle.context>> ELSE << >>
         IN IF probed /\ ~Require(fs.context).threw /\ Require(fs.context).truthy
              THEN [value |-> bundle.context, required |-> first]
              ELSE IF ~Require(fs.cwd).threw /\ Require(fs.cwd).truthy
                THEN [value |-> Cwd, required |-> Append(first, Cwd)]
                ELSE [value |-> "null", required |-> Append(first, Cwd)]

\* lines 214-238
getProjectRoot(p, bundle, fs) ==
  /\ returned' = getProjectRootResult(root[p], bundle, fs)
  /\ thrown' = "none"
  /\ args' = <<bundle, fs>>
  /\ Step("getProjectRoot", p, 0)
  /\ UNCHANGED <<handler, watching, minimal, socket, cl, socks, fnCalls, now, compiler, started, root>>

InitRoot == \E r \in [Plugins -> Roots] : InitPlugin(r)

NextRoot == \E p \in Plugins, bundle \in Bundles, fs \in Files : getProjectRoot(p, bundle, fs)

SpecRoot == InitRoot /\ [][NextRoot]_vars

\* ------------------------------------------------------------------------
\* The elapsed label for every duration: the state after apply("hp", 1),
\* apply("sp", 1) and compile(1) at instant t0, with the clock d milliseconds
\* later; then the three hooks that call getTimeMessage.
\* ------------------------------------------------------------------------
TimerStarts == {0, 250}

Applied(p, t0) ==
  [handler |-> IF Constructed(p) = "null" THEN "noop" ELSE "fn", sock |-> 0,
   timer |-> t0, nodeEnv |-> "development"]

InitTime ==
  \E t0 \in TimerStarts, d \in 0..MaxElapsed :
    /\ handler = [p \in Plugins |-> Constructed(p)]
    /\ watching = [p \in Plugins |-> FALSE]
    /\ minimal = [p \in Plugins |-> "undefined"]
    /\ socket = [p \in Plugins |-> IF Constructed(p) = "null" THEN 1 ELSE 0]
    /\ cl = [p \in Plugins |-> [c \in Compilers |-> IF c = 1 THEN Applied(p, t0) ELSE NoClosure]]
    /\ socks = [p \in Plugins |-> [c \in Compilers |->
                 IF c = 1 /\ Constructed(p) = "null"
                   THEN [status |-> "connecting", emitted |-> << >>, modeListener |-> TRUE,
                         connects |-> 0, closes |-> 0]
                   ELSE NoSocket]]
    /\ fnCalls = << [p |-> "hp", c |-> 1, batch |-> compileBatch] >>
    /\ now = t0 + d
    /\ compiler = [c \in Compilers |->
                     [define |-> "absent", pathinfo |-> (c = 1), setup |-> IF c = 1 THEN 2 ELSE 0,
                      threw |-> FALSE, building |-> (c = 1)]]
    /\ started = "none"
    /\ thrown = "none"
    /\ root = [p \in Plugins |-> "undefined"]
    /\ args = <<d>>
    /\ returned = Void
    /\ sig = Sig("tick", "", 0)
    /\ steps = 4

NextTime ==
  \/ \E percent \in Percents, msg \in Msgs : progress(1, percent, msg)
  \/ failed(1)
  \/ done(1, [hasErrors |-> FALSE, hasWarnings |-> FALSE])

SpecTime == InitTime /\ [][NextTime]_vars

\* ------------------------------------------------------------------------
\* One instance shared by the compilers: the state after apply("hp", c) and
\* apply("sp", c) on every compiler c, with the operations counted from
\* there; then cleanup(), the transport events, and the watch-run, run and
\* compile signals.
\* ------------------------------------------------------------------------
InitShared ==
  \E d \in {e \in Defines : JSONparse(getOrNodeEnv(e)).ok} :
    /\ handler = [p \in Plugins |-> Constructed(p)]
    /\ watching = [p \in Plugins |-> FALSE]
    /\ minimal = [p \in Plugins |-> "undefined"]
    /\ socket = [p \in Plugins |-> IF Constructed(p) = "null" THEN 2 ELSE 0]
    /\ cl = [p \in Plugins |-> [c \in Compilers |->
               [handler |-> IF Constructed(p) = "null" THEN "noop" ELSE "fn", sock |-> 0,
                timer |-> Undefined, nodeEnv |-> JSONparse(getOrNodeEnv(d)).value]]]
    /\ socks = [p \in Plugins |-> [c \in Compilers |->
                 IF Constructed(p) = "null"
                   THEN [status |-> "connecting", emitted |-> << >>, modeListener |-> TRUE,
                         connects |-> 0, closes |-> 0]
                   ELSE NoSocket]]
    /\ fnCalls = << >>
    /\ now = 0
    /\ compiler = [c \in Compilers |->
                     [define |-> d, pathinfo |-> TRUE, setup |-> Len(PluginOrder),
                      threw |-> FALSE, building |-> FALSE]]
    /\ started = "none"
    /\ thrown = "none"
    /\ root = [p \in Plugins |-> "undefined"]
    /\ args = << >>
    /\ returned = Void
    /\ sig = Sig("apply", "sp", 2)
    /\ steps = 0

NextShared ==
  \/ \E p \in Plugins : cleanup(p)
  \/ \E p \in Plugins, c \in Compilers : connect(p, c)
  \/ \E p \in Plugins, c \in Compilers, m \in {"true", "false"} : mode(p, c, m)
  \/ \E c \in Compilers : watchRun(c)
  \/ \E c \in Compilers : run(c)
  \/ \E c \in Compilers : compile(c)

SpecShared == InitShared /\ [][NextShared]_vars

\* ------------------------------------------------------------------------
\* The claims.  A step is identified by sig', the operation that made it.
\* ------------------------------------------------------------------------
Lifecycle == {"compile", "progress", "invalid", "failed", "done"}

StatusOf(name) ==
  CASE name = "compile" -> "Compiling"
    [] name = "progress" -> "Compiling"
    [] name = "invalid" -> "Invalidated"
    [] name = "failed" -> "Failed"
    [] name = "done" -> "Success"

IsNodeEnv(b) == Len(b) = 1 /\ b[1].type = "nodeEnv"
NodeEnvCount(bs) == Cardinality({i \in 1..Len(bs) : IsNodeEnv(bs[i])})

\* the batches the caller-supplied function received from compiler c
FnBatches(c) ==
  LET es == SelectSeq(fnCalls, LAMBDA e : e.c = c)
  IN [i \in 1..Len(es) |-> es[i].batch]

\* this step passed exactly one batch, b, to the function of "hp", from compiler c
FnGot(c, b) == fnCalls' = Append(fnCalls, [p |-> "hp", c |-> c, batch |-> b])

\* this step passed exactly one batch, b, to socket.emit of a transport of p
Sent(p, b) == \E s \in Compilers : socks'[p] = [socks[p] EXCEPT ![s].emitted = Append(@, b)]

\* this step passed nothing to socket.emit of any transport of p
SentNothing(p) == \A s \in Compilers : socks'[p][s].emitted = socks[p][s].emitted

\* the transport that apply(p, c) made has had its connect signal
Connected(p, c) == socks[p][c].connects > 0

\* C1: in socket mode, once a cleanup() call has passed its guard and closed
\* the transport, no later lifecycle signal sends a batch over that transport.
C1_NoEmitAfterCleanup ==
  [][\A p \in Plugins, s \in Compilers :
       socks[p][s].closes > 0 => socks'[p][s].emitted = socks[p][s].emitted]_vars

\* C2: the transport is never closed while a build is in flight, that is
\* between a compile signal and the done or failed signal that ends the build.
C2_NeverClosedInFlight ==
  [][\A p \in Plugins, s \in Compilers :
       socks'[p][s].closes > socks[p][s].closes => \A c \in Compilers : ~compiler[c].building]_vars

\* C3: nothing is sent over a transport before that transport's connect signal.
C3_NothingBeforeConnect ==
  \A p \in Plugins, s \in Compilers :
    socks[p][s].connects = 0 => socks[p][s].emitted = << >>

\* C4: over every transport the [nodeEnv] batch is sent once per connect
\* signal of that transport, and the first batch sent over it is [nodeEnv].
C4_NodeEnvOncePerConnection ==
  \A p \in Plugins, s \in Compilers :
    /\ NodeEnvCount(socks[p][s].emitted) = socks[p][s].connects
    /\ socks[p][s].emitted # << >> => IsNodeEnv(socks[p][s].emitted[1])

\* C5 as stated: the function of the handler-mode plugin has received, from
\* every compiler, exactly the sequence of batches the socket-mode plugin has
\* sent over its transport for that compiler.
C5_SameSequence ==
  \A c \in Compilers : FnBatches(c) = socks["sp"][c].emitted

\* C5 as amended: every lifecycle signal builds the same batch in both modes;
\* handler mode passes it to the function, socket mode passes that same batch
\* to socket.emit if the connect signal has occurred and drops it otherwise;
\* a connect signal sends one [nodeEnv] batch and calls no function.
C5_SameBatchPerSignal ==
  [][/\ sig'.name \in Lifecycle =>
          /\ Len(fnCalls') = Len(fnCalls) + 1
          /\ LET b == fnCalls'[Len(fnCalls')].batch IN
               /\ FnGot(sig'.c, b)
               /\ IF Connected("sp", sig'.c) THEN Sent("sp", b) ELSE socks'["sp"] = socks["sp"]
     /\ sig'.name = "connect" =>
          /\ fnCalls' = fnCalls
          /\ \E s \in Compilers :
               /\ Len(socks'[sig'.p][s].emitted) = Len(socks[sig'.p][s].emitted) + 1
               /\ IsNodeEnv(socks'[sig'.p][s].emitted[Len(socks'[sig'.p][s].emitted)])
               /\ \A r \in Compilers \ {s} : socks'[sig'.p][r].emitted = socks[sig'.p][r].emitted]_vars

\* a lifecycle signal after connect: the transport and the function got the same batch
C5_Witness ==
  /\ sig.name \in Lifecycle
  /\ Len(socks["sp"][1].emitted) >= 2
  /\ socks["sp"][1].emitted[Len(socks["sp"][1].emitted)] = fnCalls[Len(fnCalls)].batch
  /\ Len(FnBatches(1)) >= 2

\* C6: a cleanup() call that directly follows a cleanup() call of the same
\* plugin leaves the handler field, the watching flag, the minimal flag and
\* the open/closed status of every transport as the first call left them.
C6_CleanupIdempotent ==
  [][(sig.name = "cleanup" /\ sig'.name = "cleanup" /\ sig'.p = sig.p) =>
       /\ handler' = handler
       /\ watching' = watching
       /\ minimal' = minimal
       /\ \A p \in Plugins, s \in Compilers : socks'[p][s].status = socks[p][s].status]_vars

\* apply, apply, cleanup, cleanup: two calls in succession that pass the guard
C6_Witness ==
  /\ steps = 4
  /\ sig = Sig("cleanup", "sp", 0)
  /\ socket["sp"] = 1
  /\ socks["sp"][1].closes = 2
  /\ socks["sp"][1].status = "closed"

\* C7: a cleanup() call whose guard fails raises nothing and changes no state
\* of the plugin, the transports or the function's calls; and while the last
\* of watch-run and run to have fired is watch-run, no step closes a transport.
C7_GuardFailureIsNoOp ==
  [][/\ (sig'.name = "cleanup" /\ (watching[sig'.p] \/ socket[sig'.p] = 0)) =>
          /\ thrown' = "none"
          /\ UNCHANGED <<handler, watching, minimal, socket, cl, socks, fnCalls, now, compiler, started>>
     /\ started = "watch-run" /\ sig'.name = "cleanup" =>
          \A p \in Plugins, s \in Compilers :
            /\ socks'[p][s].closes = socks[p][s].closes
            /\ socks'[p][s].status = socks[p][s].status]_vars

\* cleanup() of the socket-mode plugin after watch-run and done: the transport is still open
C7_Witness ==
  /\ sig = Sig("cleanup", "sp", 0)
  /\ started = "watch-run"
  /\ socket["sp"] = 1
  /\ socks["sp"][1].status = "connecting"
  /\ socks["sp"][1].closes = 0
  /\ fnCalls # << >>
  /\ fnCalls[Len(fnCalls)].batch[1].value = "Success"

\* C8: apply() of the handler-mode plugin makes no transport; every compile,
\* progress, invalid, failed and done signal calls the function exactly once,
\* with that signal's batch; watch-run and run do not call it.
C8_HandlerMode ==
  [][/\ socket'["hp"] = 0
     /\ \A c \in Compilers : socks'["hp"][c].status = "none" /\ socks'["hp"][c].emitted = << >>
     /\ sig'.name \in Lifecycle =>
          /\ Len(fnCalls') = Len(fnCalls) + 1
          /\ FnGot(sig'.c, fnCalls'[Len(fnCalls')].batch)
          /\ fnCalls'[Len(fnCalls')].batch[1] = [type |-> "status", value |-> StatusOf(sig'.name)]
     /\ sig'.name \in {"watch-run", "run"} => fnCalls' = fnCalls]_vars

\* both plugins applied, the function called by a signal, no transport for "hp"
C8_Witness ==
  /\ sig.name = "failed"
  /\ cl["hp"][1].handler = "fn"
  /\ socket["hp"] = 0
  /\ Len(fnCalls) = 2
  /\ fnCalls[2].batch[1].value = "Failed"

\* C9: every compile signal builds exactly one batch, [status=Compiling]: the
\* function is called once with it, and it is passed once to socket.emit if
\* the connect signal has occurred and dropped otherwise, also after cleanup().
C9_CompileOneBatch ==
  [][sig'.name = "compile" =>
       LET b == << [type |-> "status", value |-> "Compiling"] >> IN
       /\ FnGot(sig'.c, b)
       /\ IF Connected("sp", sig'.c) THEN Sent("sp", b) ELSE socks'["sp"] = socks["sp"]]_vars

\* a compile signal after connect and after a cleanup() that closed the transport
C9_Witness ==
  /\ sig.name = "compile"
  /\ socks["sp"][1].status = "closed"
  /\ socks["sp"][1].connects = 1
  /\ Len(socks["sp"][1].emitted) = 2

\* C10: the batch of an invalid signal is status=Invalidated, progress=0,
\* operations="idle" without elapsed label, clear without value, in this
\* order; the signal changes no timer and no watching flag.
C10_InvalidBatch ==
  [][sig'.name = "invalid" =>
       LET b == << [type |-> "status", value |-> "Invalidated"],
                   [type |-> "progress", value |-> 0],
                   [type |-> "operations", value |-> [text |-> "idle"]],
                   [type |-> "clear"] >> IN
       /\ FnGot(sig'.c, b)
       /\ IF Connected("sp", sig'.c) THEN Sent("sp", b) ELSE socks'["sp"] = socks["sp"]
       /\ \A p \in Plugins, c \in Compilers : cl'[p][c].timer = cl[p][c].timer
       /\ watching' = watching]_vars

\* an invalid signal while watching, with the timer running, after connect
C10_Witness ==
  /\ sig.name = "invalid"
  /\ watching["sp"]
  /\ cl["sp"][1].timer # Undefined
  /\ socks["sp"][1].emitted # << >>
  /\ Len(socks["sp"][1].emitted[Len(socks["sp"][1].emitted)]) = 4

\* C11: the batch of a done signal has five entries, in the order
\* status=Success, progress=0, operations, stats, log, and its stats.errors
\* and stats.warnings are the results of hasErrors() and hasWarnings() of the
\* stats object the signal carries; the same batch goes to the function and,
\* after connect, to socket.emit.
C11_DoneBatch ==
  [][sig'.name = "done" =>
       /\ Len(fnCalls') = Len(fnCalls) + 1
       /\ LET b == fnCalls'[Len(fnCalls')].batch
              stats == args'[1]
          IN /\ FnGot(sig'.c, b)
             /\ IF Connected("sp", sig'.c) THEN Sent("sp", b) ELSE socks'["sp"] = socks["sp"]
             /\ Len(b) = 5
             /\ b[1] = [type |-> "status", value |-> "Success"]
             /\ b[2] = [type |-> "progress", value |-> 0]
             /\ b[3].type = "operations"
             /\ b[4].type = "stats"
             /\ b[4].value.errors = stats.hasErrors
             /\ b[4].value.warnings = stats.hasWarnings
             /\ b[5].type = "log"]_vars

\* a done signal after connect whose stats object has errors and no warnings
C11_Witness ==
  /\ sig.name = "done"
  /\ args = << [hasErrors |-> TRUE, hasWarnings |-> FALSE] >>
  /\ Connected("sp", 1)
  /\ Len(socks["sp"][1].emitted) = 2
  /\ socks["sp"][1].emitted[2][4].value.errors
  /\ ~socks["sp"][1].emitted[2][4].value.warnings

\* the elapsed labels in the batches the function has received
HasLabel(b) == \E i \in 1..Len(b) : b[i].type = "operations" /\ "time" \in DOMAIN b[i].value
LabelOf(b) == b[CHOOSE i \in 1..Len(b) : b[i].type = "operations"].value.time

\* C12: for an elapsed time of d whole milliseconds the label is d with "ms"
\* when d < 1000, and the integer nearest to d/1000 (a half rounds up) with
\* "s" when d >= 1000.
C12_ElapsedLabel ==
  \A i \in 1..Len(fnCalls) :
    HasLabel(fnCalls[i].batch) =>
      LET d == now - cl["hp"][1].timer
          l == LabelOf(fnCalls[i].batch)
      IN /\ ~l.nan
         /\ IF d < 1000
              THEN l.unit = "ms" /\ l.n = d
              ELSE l.unit = "s" /\ 1000 * l.n - 500 <= d /\ d < 1000 * l.n + 500

\* 3400 ms after compile the failed hook reports 3 s
C12_Witness ==
  /\ now - cl["hp"][1].timer = 3400
  /\ sig.name = "failed"
  /\ LabelOf(fnCalls[Len(fnCalls)].batch) = [nan |-> FALSE, n |-> 3, unit |-> "s"]

\* C13: getProjectRoot returns the root option when it is set, without
\* requiring any manifest; else bundle.context when the bundle has one and the
\* package.json under it is a manifest (the working directory is then not
\* tried); else the working directory when the package.json under it is a
\* manifest; else null.  A missing bundle, a missing context and a missing,
\* unparsable or empty package.json count as no match, and nothing is raised.
C13_ProjectRoot ==
  sig.name = "getProjectRoot" =>
    LET r == root[sig.p]
        bundle == args[1]
        fs == args[2]
        hasContext == bundle.defined /\ bundle.context \notin {"undefined", ""}
    IN /\ thrown = "none"
       /\ IF r \notin {"undefined", ""}
            THEN returned = [value |-> r, required |-> << >>]
            ELSE IF hasContext /\ fs.context = "object"
              THEN returned = [value |-> bundle.context, required |-> <<bundle.context>>]
              ELSE IF fs.cwd = "object"
                THEN returned.value = "/cwd"
                ELSE returned.value = "null"

\* no root option, a manifest under the bundle context and one under the
\* working directory: the context wins
C13_Witness ==
  /\ sig = Sig("getProjectRoot", "sp", 0)
  /\ root["sp"] = "undefined"
  /\ args[1] = [defined |-> TRUE, context |-> "/b"]
  /\ args[2] = [context |-> "object", cwd |-> "object"]
  /\ returned.value = "/b"

\* C14: apply() never aborts on the NODE_ENV lookup: with no DefinePlugin,
\* with one that declares no process.env NODE_ENV, and with one whose
\* constant is not parsable, it raises nothing, resolves "development" and
\* registers its hooks.
C14_LookupNeverAborts ==
  (sig.name = "apply" /\ compiler[sig.c].define \in {"absent", "noNodeEnv", "bareProduction"}) =>
    /\ thrown = "none"
    /\ cl[sig.p][sig.c].handler # "unapplied"
    /\ cl[sig.p][sig.c].nodeEnv = "development"

\* C15: a progress, failed or done signal with no compile signal before it
\* still yields a well-formed label: a number, followed by "ms" or "s".
C15_LabelWellFormed ==
  \A i \in 1..Len(fnCalls) :
    HasLabel(fnCalls[i].batch) =>
      /\ ~LabelOf(fnCalls[i].batch).nan
      /\ LabelOf(fnCalls[i].batch).n \in Nat
      /\ LabelOf(fnCalls[i].batch).unit \in {"ms", "s"}

\* C16 as stated: close is issued on a given transport at most one time.
C16_ClosedAtMostOnce ==
  \A p \in Plugins, s \in Compilers : socks[p][s].closes <= 1

\* C16: a transport is destroyed at most once: once closed it stays closed
\* under every cleanup() call, transport event and lifecycle signal; close is
\* issued on the current transport by every cleanup() call that passes the
\* guard, the calls after the first included, and by no other step.
C16_DestroyedOnce ==
  [][\A p \in Plugins, s \in Compilers :
       /\ socks[p][s].status = "closed" => socks'[p][s].status = "closed"
       /\ socks'[p][s].closes =
            IF sig'.name = "cleanup" /\ sig'.p = p /\ ~watching[p] /\ socket[p] = s
              THEN socks[p][s].closes + 1
              ELSE socks[p][s].closes]_vars

\* apply, apply, run, cleanup, cleanup: close issued twice on a transport
\* that the first call closed
C16_Witness ==
  /\ sig = Sig("cleanup", "sp", 0)
  /\ started = "run"
  /\ socks["sp"][1].closes = 2
  /\ socks["sp"][1].status = "closed"
  /\ socks["sp"][1].connects = 0

\* the label l reads an elapsed time of d milliseconds
Reads(l, d) ==
  /\ ~l.nan
  /\ IF d < ONE_SECOND
       THEN l.unit = "ms" /\ l.n = d
       ELSE l.unit = "s" /\ 2 * ONE_SECOND * l.n - ONE_SECOND <= 2 * d
                         /\ 2 * d < 2 * ONE_SECOND * l.n + ONE_SECOND

\* C17: only the compile signal changes a start instant, setting the one of
\* its compiler to the instant of the signal; and the label of a progress,
\* failed or done batch reads the time from the start instant of the most
\* recent compile to the instant of that signal.
C17_TimerResetOnlyOnCompile ==
  [][/\ \A p \in Plugins, c \in Compilers :
          /\ cl'[p][c].timer # cl[p][c].timer => sig'.name = "compile" /\ sig'.c = c
          /\ (sig'.name = "compile" /\ sig'.c = c) => cl'[p][c].timer = now
     /\ (sig'.name \in {"progress", "failed", "done"} /\ cl["hp"][sig'.c].timer # Undefined) =>
          /\ Len(fnCalls') = Len(fnCalls) + 1
          /\ Reads(LabelOf(fnCalls'[Len(fnCalls')].batch), now' - cl'["hp"][sig'.c].timer)]_vars

\* apply, apply, tick, compile, tick, done: compile at 600, done at 1200
C17_Witness ==
  /\ sig = Sig("done", "", 1)
  /\ cl["hp"][1].timer = 600
  /\ cl["sp"][1].timer = 600
  /\ now = 1200
  /\ LabelOf(fnCalls[Len(fnCalls)].batch) = [nan |-> FALSE, n |-> 600, unit |-> "ms"]

\* C18: the watching flag of a plugin is true exactly when the last of
\* watch-run and run to have fired is watch-run (false when neither has);
\* watch-run and run deliver no batch; no other step changes the flag.
C18_WatchingFlag ==
  [][/\ \A p \in Plugins :
          /\ watching[p] <=> started = "watch-run"
          /\ watching'[p] <=> started' = "watch-run"
          /\ sig'.name = "watch-run" => watching'[p]
          /\ sig'.name = "run" => ~watching'[p]
          /\ sig'.name \notin {"watch-run", "run"} => watching'[p] = watching[p]
     /\ sig'.name \in {"watch-run", "run"} =>
          /\ fnCalls' = fnCalls
          /\ \A p \in Plugins, s \in Compilers : socks'[p][s].emitted = socks[p][s].emitted]_vars

\* apply, apply, watch-run, connect, mode: the flag raised by watch-run is
\* still up after the transport events
C18_Witness ==
  /\ sig = Sig("mode", "sp", 1)
  /\ started = "watch-run"
  /\ watching["sp"]
  /\ watching["hp"]
  /\ minimal["sp"] = "true"

\* C19: the minimal flag is unset until the first mode event, takes the
\* value of that event, and no later step changes it; a mode event sends
\* no batch.
C19_ModeReceivedOnce ==
  [][/\ \A p \in Plugins :
          /\ minimal'[p] # minimal[p] =>
               /\ sig'.name = "mode" /\ sig'.p = p
               /\ minimal[p] = "undefined"
               /\ minimal'[p] = args'[1]
     /\ sig'.name = "mode" =>
          /\ fnCalls' = fnCalls
          /\ \A p \in Plugins, s \in Compilers : socks'[p][s].emitted = socks[p][s].emitted]_vars

\* the transports opened by plugin p that are open
OpenTransports(p) == {s \in Compilers : socks[p][s].status \in {"connecting", "connected"}}

\* C20: an instance owns a single transport: after any number of apply()
\* calls at most one transport it opened is open, and after a cleanup()
\* call that passed its guard none is.
C20_SingleTransport ==
  \A p \in Plugins :
    /\ Cardinality(OpenTransports(p)) <= 1
    /\ (sig = Sig("cleanup", p, 0) /\ ~watching[p] /\ socket[p] # 0) => OpenTransports(p) = {}
====
